---------------------------- MODULE Spec2Model ----------------------------
(***************************************************************************)
(* A model of the orderops order store (state_store.py), its toolkit       *)
(* (tools.py), the eligibility rules (rules.py) and the planning and       *)
(* dispatch pipeline of the chat session (app.py).                         *)
(*                                                                         *)
(* Time is counted in units of 1/TimeScale seconds, so that the float      *)
(* arithmetic of time.time() and the truncation int() are distinguishable. *)
(* Calendar dates are day numbers relative to the day the store was        *)
(* seeded; an ISO date string is [k |-> "iso", d |-> day].                 *)
(***************************************************************************)
EXTENDS Integers, Sequences, FiniteSets, TLC

VARIABLES
    orders,          \* Store.orders: order id -> order dict
    actions,         \* Store.actions: the action log
    last_action,     \* Store.last_action: index into actions of the entry it is, 0 for None
    action_seq,      \* Store._action_seq
    shared,          \* order id -> index of the log entry whose "before" dict IS orders[id], else 0
    now,             \* time.time(), in units of 1/TimeScale s
    today,           \* date.today(), as a day number
    ret,             \* what the last handler's Store / Tools call returned (NoRet: it made none)
    pending_action,  \* st.session_state.pending_action
    active_oid,      \* st.session_state.active_oid
    processing,      \* st.session_state.processing: a turn is being answered
    local_result,    \* local_result of the turn being answered
    plan_in,         \* the arguments of the current call of ai_plan, and what the model replied
    plan,            \* the plan that call returned
    rule_in,         \* the arguments of a call of the rules of rules.py
    rule_out,        \* what can_cancel, is_return_eligible and can_change_address returned
    avg_in,          \* the item and courier filters of a call of compute_avg_delivery_days
    avg_out          \* what that call returned

store_vars == <<orders, actions, last_action, action_seq, shared>>
session_vars == <<pending_action, active_oid, processing, local_result>>
plan_vars == <<plan_in, plan>>
rule_vars == <<rule_in, rule_out>>
avg_vars == <<avg_in, avg_out>>
vars == <<orders, actions, last_action, action_seq, shared, now, today, ret,
          pending_action, active_oid, processing, local_result, plan_in, plan,
          rule_in, rule_out, avg_in, avg_out>>

-----------------------------------------------------------------------------
(* Bounds of the model *)

TimeScale == 2
MaxTime == 301
MaxDays == 1
MaxActions == 2

-----------------------------------------------------------------------------
(* Values *)

None == "<None>"

undo_grace_seconds == 300

NoRet == [op |-> "none", oid |-> None, ok |-> FALSE, msg |-> <<>>]

NoPending == [type |-> None, oid |-> None, address |-> None]

NoResult == <<>>

NoPlanIn == [text |-> <<>>, active |-> None, has_orders |-> FALSE, reply |-> [kind |-> "none"]]

NoPlan == [intent |-> None, target_order_id |-> None, address_text |-> None, actions |-> <<>>]

\* no order: what get_order returns for an id the store does not hold
NoOrder == [order_id |-> None]

NoRuleIn == [order |-> NoOrder, today |-> 0]

NoRuleOut == [called |-> FALSE]

NoAvgIn == [item |-> None, courier |-> None]

NoAvgOut == [called |-> FALSE]

Grace == undo_grace_seconds * TimeScale

NoDate == [k |-> "none", d |-> 0]
BadDate == [k |-> "bad", d |-> 0]
Iso(n) == [k |-> "iso", d |-> n]

\* bool(x) of an Optional[str] holding a date
Truthy(x) == x.k # "none"

\* datetime.fromisoformat(x).date() succeeds
Parses(x) == x.k = "iso"

Statuses == {"Processing", "Shipped", "Out for Delivery", "Delivered",
             "Return Initiated", "Refunded", "Cancelled"}

image_for_items(items) == <<"svg", IF Len(items) > 0 THEN items[1] ELSE "Item">>

make_order(oid, status, items, phone, courier, tracking, ship, eta, delivered, return_ok_until, address, order_date, refund_status) ==
    [order_id |-> oid, status |-> status, items |-> items, phone |-> phone,
     courier |-> courier, tracking_id |-> tracking, ship_date |-> ship,
     est_delivery_date |-> eta, delivered_date |-> delivered,
     return_eligible_until |-> return_ok_until, address_line |-> address,
     order_date |-> order_date, image_url |-> image_for_items(items),
     refund_status |-> refund_status]

seed_demo(phone, t) ==
    ("ORD10071" :> make_order("ORD10071", "Delivered", <<"Wireless Earbuds">>, phone, "BlueDart", "BDX81234",
                Iso(t - 7), Iso(t - 3), Iso(t - 3), Iso(t + 7), "12 Park Lane, Mumbai", Iso(t - 10), "Completed"))
    @@ ("ORD10072" :> make_order("ORD10072", "Shipped", <<"Smartwatch Series X">>, phone, "Delhivery", "DLV93811",
                Iso(t - 2), Iso(t + 2), NoDate, NoDate, "221B Baker Street, Delhi", Iso(t - 3), None))
    @@ ("ORD10073" :> make_order("ORD10073", "Out for Delivery", <<"Gaming Mouse Pro">>, phone, "Ekart", "EKT11229",
                Iso(t - 3), Iso(t), NoDate, NoDate, "Hitech City, Hyderabad", Iso(t - 4), None))
    @@ ("ORD10074" :> make_order("ORD10074", "Processing", <<"Bluetooth Speaker Mini">>, phone, None, None,
                NoDate, Iso(t + 4), NoDate, NoDate, "MG Road, Bengaluru", Iso(t - 1), None))
    @@ ("ORD10075" :> make_order("ORD10075", "Return Initiated", <<"Running Shoes 9">>, phone, "BlueDart", "BDX84544",
                Iso(t - 9), Iso(t - 5), Iso(t - 4), Iso(t + 6), "Sector 18, Noida", Iso(t - 12), "Pending Pickup"))
    @@ ("ORD10076" :> make_order("ORD10076", "Refunded", <<"Phone Case Clear">>, phone, "Ekart", "EKT22001",
                Iso(t - 14), Iso(t - 10), Iso(t - 9), Iso(t - 2), "Baner, Pune", Iso(t - 16), "Completed"))
    @@ ("ORD10077" :> make_order("ORD10077", "Delivered", <<"Laptop Sleeve 14 inch">>, phone, "Delhivery", "DLV22881",
                Iso(t - 6), Iso(t - 2), Iso(t - 2), Iso(t + 8), "Salt Lake, Kolkata", Iso(t - 8), None))
    @@ ("ORD10078" :> make_order("ORD10078", "Processing", <<"USB-C Cable 2m">>, phone, None, None,
                NoDate, Iso(t + 3), NoDate, NoDate, "Anna Nagar, Chennai", Iso(t), None))
    @@ ("ORD10079" :> make_order("ORD10079", "Shipped", <<"Mechanical Keyboard TKL">>, phone, "BlueDart", "BDX99901",
                Iso(t - 1), Iso(t + 3), NoDate, NoDate, "Navi Mumbai", Iso(t - 2), None))

\* A store holding the order shapes the seed leaves out: Delivered orders whose
\* return_eligible_until is absent, unparseable, already past, or ends today.
edge_store(phone, t) ==
    ("ORD10002" :> make_order("ORD10002", "Delivered", <<"Backpack">>, phone, "Ekart", "EKT1",
                Iso(t - 6), Iso(t - 2), Iso(t - 2), NoDate, "2 Main Road, Pune", Iso(t - 8), None))
    @@ ("ORD10003" :> make_order("ORD10003", "Delivered", <<"Shirt">>, phone, "Ekart", "EKT2",
                Iso(t - 6), Iso(t - 2), Iso(t - 2), BadDate, "3 Main Road, Pune", Iso(t - 8), None))
    @@ ("ORD10004" :> make_order("ORD10004", "Delivered", <<"Jeans">>, phone, "Ekart", "EKT3",
                Iso(t - 15), Iso(t - 11), Iso(t - 11), Iso(t - 1), "4 Main Road, Pune", Iso(t - 17), None))
    @@ ("ORD10005" :> make_order("ORD10005", "Delivered", <<"LED Bulb">>, phone, "Ekart", "EKT4",
                Iso(t - 14), Iso(t - 10), Iso(t - 10), Iso(t), "5 Main Road, Pune", Iso(t - 16), None))

InitStores == {seed_demo("9876543210", 0), edge_store("9876543210", 0)}

UnknownId == "ORD99999"

NewAddresses == {"12 Park Lane, Mumbai"}

-----------------------------------------------------------------------------
(* Store (state_store.py).  A store state S is the record of the Store's    *)
(* attributes; every method maps S (and the clock) to the next S.           *)

StoreState == [orders |-> orders, actions |-> actions, last_action |-> last_action,
               action_seq |-> action_seq, shared |-> shared]

\* self.orders.get(oid) is not None
has_order(S, oid) == oid \in DOMAIN S.orders

\* self.orders.get(oid), for an oid the store holds
get_order(S, oid) == S.orders[oid]

\* copy.deepcopy of the order dict: a value that shares nothing with the store
snapshot_order(S, oid) == get_order(S, oid)

\* orders[oid][field] = val, written through to the log entry whose "before"
\* is the very dict held in orders[oid] (undo_last installs it without copying)
write_field(S, oid, field, val) ==
    LET k == S.shared[oid] IN
    [S EXCEPT !.orders[oid][field] = val,
              !.actions = IF k = 0 THEN @ ELSE [@ EXCEPT ![k].before[field] = val]]

set_status(S, oid, new_status) ==
    IF oid \in DOMAIN S.orders THEN write_field(S, oid, "status", new_status) ELSE S

\* a set_address that writes the address over the items
set_address_items(S, oid, new_addr) ==
    IF oid \in DOMAIN S.orders THEN write_field(S, oid, "items", <<new_addr>>) ELSE S

set_address(S, oid, new_addr) ==
    IF oid \in DOMAIN S.orders THEN write_field(S, oid, "address_line", new_addr) ELSE S

\* a set_refund_status that cascades to every order
set_refund_status_all(S, oid, status) ==
    [S EXCEPT !.orders = [o \in DOMAIN S.orders |-> [S.orders[o] EXCEPT !.refund_status = status]]]

set_refund_status(S, oid, status) ==
    IF oid \in DOMAIN S.orders THEN write_field(S, oid, "refund_status", status) ELSE S

\* a push_action that leaves the last-action pointer where it was
push_action_no_pointer(S, action_type, oid, before, after, t) ==
    LET entry == [id |-> S.action_seq + 1, type |-> action_type, oid |-> oid, ts |-> t,
                  before |-> before, after |-> after] IN
    [S EXCEPT !.action_seq = @ + 1,
              !.actions = Append(@, entry)]

push_action(S, action_type, oid, before, after, t) ==
    LET entry == [id |-> S.action_seq + 1, type |-> action_type, oid |-> oid, ts |-> t,
                  before |-> before, after |-> after] IN
    [S EXCEPT !.action_seq = @ + 1,
              !.actions = Append(@, entry),
              !.last_action = Len(S.actions) + 1]

\* a can_undo that forgets the grace period
can_undo_no_expiry(S, t) == S.last_action # 0

\* a can_undo that refuses an action exactly as old as the grace period
can_undo_strict(S, t) ==
    IF S.last_action = 0 THEN FALSE
    ELSE (t - S.actions[S.last_action].ts) < Grace

can_undo(S, t) ==
    IF S.last_action = 0 THEN FALSE
    ELSE (t - S.actions[S.last_action].ts) <= Grace

\* int(x) of a non-negative duration held in units of 1/TimeScale s
IntSeconds(units) == units \div TimeScale

Max(a, b) == IF a >= b THEN a ELSE b

\* the age_sec, remaining_sec and can_undo of last_action_info(); None is has = FALSE
last_action_info(S, t) ==
    IF S.last_action = 0 THEN [has |-> FALSE, age_sec |-> 0, remaining_sec |-> 0, can_undo |-> FALSE]
    ELSE LET age == IntSeconds(t - S.actions[S.last_action].ts)
             remaining == Max(0, undo_grace_seconds - age)
         IN [has |-> TRUE, age_sec |-> age, remaining_sec |-> remaining, can_undo |-> remaining > 0]

Result(S, ok, msg) == [S |-> S, ok |-> ok, msg |-> msg]

\* an undo that installs the entry's "after" snapshot
UndoRestoreAfter(S, oid, k) ==
    [S EXCEPT !.orders[oid] = S.actions[k].after,
              !.shared[oid] = 0,
              !.last_action = 0]

\* an undo that steps the pointer back to the entry before (a stack of undos)
UndoRestoreStack(S, oid, k) ==
    [S EXCEPT !.orders[oid] = S.actions[k].before,
              !.shared[oid] = k,
              !.last_action = k - 1]

\* an undo that takes the undone entry out of the log
UndoRestorePop(S, oid, k) ==
    [S EXCEPT !.orders[oid] = S.actions[k].before,
              !.shared[oid] = 0,
              !.actions = SubSeq(@, 1, k - 1),
              !.last_action = 0]

\* self.orders[oid] = before; self.last_action = None
UndoRestore(S, oid, k) ==
    [S EXCEPT !.orders[oid] = S.actions[k].before,
              !.shared[oid] = k,
              !.last_action = 0]

undo_last(S, t) ==
    IF ~can_undo(S, t) THEN Result(S, FALSE, <<"Undo window has expired.">>)
    ELSE LET k == S.last_action
             act == S.actions[k]
             oid == act.oid
         IN IF oid = None \/ oid \notin DOMAIN S.orders
            THEN Result([S EXCEPT !.last_action = 0], FALSE, <<"Nothing to undo.">>)
            ELSE Result(UndoRestore(S, oid, k), TRUE, <<"Reverted", act.type, oid>>)

-----------------------------------------------------------------------------
(* Eligibility rules (rules.py) *)

\* The rules take an order dict or None (NoOrder).  "order and <test>" is
\* modelled by its truth value: for no order it yields None, which is falsy.

can_cancel(order) ==
    IF order = NoOrder THEN FALSE ELSE order.status = "Processing"

\* an is_return_eligible that accepts Delivered orders only
is_return_eligible_delivered(order, t) ==
    IF order = NoOrder THEN FALSE
    ELSE IF order.status # "Delivered" THEN FALSE
    ELSE LET due == order.return_eligible_until IN
         IF ~Truthy(due) THEN FALSE
         ELSE IF Parses(due) THEN t <= due.d ELSE FALSE

is_return_eligible(order, t) ==
    IF order = NoOrder THEN FALSE
    ELSE IF order.status \notin {"Delivered", "Return Initiated"} THEN FALSE
    ELSE LET due == order.return_eligible_until IN
         IF ~Truthy(due) THEN FALSE
         ELSE IF Parses(due) THEN t <= due.d ELSE FALSE

\* a can_change_address that still allows a Shipped order
can_change_address_shipped(order) ==
    IF order = NoOrder THEN FALSE ELSE order.status \in {"Processing", "Shipped"}

can_change_address(order) ==
    IF order = NoOrder THEN FALSE ELSE order.status = "Processing"

-----------------------------------------------------------------------------
(* Toolkit (tools.py) *)

MsgNotFound(oid) == <<"I couldn't find", oid>>
MsgCancelled(oid) == <<"has been cancelled", oid>>
MsgAlready(oid, status) == <<"is already, so I can't cancel it", oid, status>>
MsgNotApplicable(oid, status) == <<"cancellation isn't applicable", oid, status>>
MsgCantCancel(oid) == <<"I can't cancel at the current stage", oid>>
MsgWindowExpired(oid) == <<"Return window has expired", oid>>
MsgReturnInitiated(oid) == <<"Return initiated", oid>>
MsgNotDelivered(oid) == <<"isn't delivered yet, so return can't be started", oid>>
MsgAddressUpdated(oid) == <<"Address updated", oid>>
MsgCantChangeAddress(oid, status) == <<"so I can't change the address", oid, status>>

\* a cancel_order that also cancels an order already shipped
cancel_order_shipped(S, oid, t) ==
    IF ~has_order(S, oid) THEN Result(S, FALSE, MsgNotFound(oid))
    ELSE IF get_order(S, oid).status \in {"Processing", "Shipped"}
         THEN LET before == snapshot_order(S, oid)
                  S1 == set_status(S, oid, "Cancelled")
                  after == snapshot_order(S1, oid)
              IN Result(push_action(S1, "cancel", oid, before, after, t), TRUE, MsgCancelled(oid))
         ELSE Result(S, FALSE, MsgCantCancel(oid))

\* a cancel_order that takes the "after" snapshot before it sets the status
cancel_order_stale_after(S, oid, t) ==
    IF ~has_order(S, oid) THEN Result(S, FALSE, MsgNotFound(oid))
    ELSE IF get_order(S, oid).status = "Processing"
         THEN LET before == snapshot_order(S, oid)
                  after == snapshot_order(S, oid)
                  S1 == set_status(S, oid, "Cancelled")
              IN Result(push_action(S1, "cancel", oid, before, after, t), TRUE, MsgCancelled(oid))
         ELSE Result(S, FALSE, MsgCantCancel(oid))

cancel_order(S, oid, t) ==
    IF ~has_order(S, oid) THEN Result(S, FALSE, MsgNotFound(oid))
    ELSE LET status == get_order(S, oid).status IN
         IF status = "Processing"
         THEN LET before == snapshot_order(S, oid)
                  S1 == set_status(S, oid, "Cancelled")
                  after == snapshot_order(S1, oid)
              IN Result(push_action(S1, "cancel", oid, before, after, t), TRUE, MsgCancelled(oid))
         ELSE IF status \in {"Shipped", "Out for Delivery"}
         THEN Result(S, FALSE, MsgAlready(oid, status))
         ELSE IF status \in {"Delivered", "Return Initiated", "Refunded", "Cancelled"}
         THEN Result(S, FALSE, MsgNotApplicable(oid, status))
         ELSE Result(S, FALSE, MsgCantCancel(oid))

\* a window test that is one day late
WindowExpiredLate(ret_until, day) ==
    Truthy(ret_until) /\ Parses(ret_until) /\ day > ret_until.d + 1

\* ret_until and date.today() > datetime.fromisoformat(ret_until).date(), a parse
\* failure being swallowed by "except Exception: pass"
WindowExpired(ret_until, day) ==
    Truthy(ret_until) /\ Parses(ret_until) /\ day > ret_until.d

\* a start_return that reports an unknown order as one not delivered
start_return_no_lookup(S, oid, t, day) ==
    IF has_order(S, oid) /\ get_order(S, oid).status = "Delivered" /\ ~WindowExpired(get_order(S, oid).return_eligible_until, day)
    THEN LET before == snapshot_order(S, oid)
             S1 == set_status(S, oid, "Return Initiated")
             S2 == set_refund_status(S1, oid, "Pending Pickup")
             after == snapshot_order(S2, oid)
         IN Result(push_action(S2, "start_return", oid, before, after, t), TRUE, MsgReturnInitiated(oid))
    ELSE IF has_order(S, oid) /\ get_order(S, oid).status = "Delivered"
    THEN Result(S, FALSE, MsgWindowExpired(oid))
    ELSE Result(S, FALSE, MsgNotDelivered(oid))

\* a start_return that takes a Shipped order for a delivered one
start_return_shipped(S, oid, t, day) ==
    IF ~has_order(S, oid) THEN Result(S, FALSE, MsgNotFound(oid))
    ELSE IF get_order(S, oid).status \in {"Delivered", "Shipped"}
    THEN IF WindowExpired(get_order(S, oid).return_eligible_until, day)
         THEN Result(S, FALSE, MsgWindowExpired(oid))
         ELSE LET before == snapshot_order(S, oid)
                  S1 == set_status(S, oid, "Return Initiated")
                  S2 == set_refund_status(S1, oid, "Pending Pickup")
                  after == snapshot_order(S2, oid)
              IN Result(push_action(S2, "start_return", oid, before, after, t), TRUE, MsgReturnInitiated(oid))
    ELSE Result(S, FALSE, MsgNotDelivered(oid))

start_return(S, oid, t, day) ==
    IF ~has_order(S, oid) THEN Result(S, FALSE, MsgNotFound(oid))
    ELSE LET status == get_order(S, oid).status
             ret_until == get_order(S, oid).return_eligible_until
         IN IF status = "Delivered"
            THEN IF WindowExpired(ret_until, day)
                 THEN Result(S, FALSE, MsgWindowExpired(oid))
                 ELSE LET before == snapshot_order(S, oid)
                          S1 == set_status(S, oid, "Return Initiated")
                          S2 == set_refund_status(S1, oid, "Pending Pickup")
                          after == snapshot_order(S2, oid)
                      IN Result(push_action(S2, "start_return", oid, before, after, t), TRUE, MsgReturnInitiated(oid))
            ELSE Result(S, FALSE, MsgNotDelivered(oid))

\* a change_address that accepts an order already shipped
change_address_shipped(S, oid, new_addr, t) ==
    IF ~has_order(S, oid) THEN Result(S, FALSE, MsgNotFound(oid))
    ELSE LET status == get_order(S, oid).status IN
         IF status \in {"Processing", "Shipped"}
         THEN LET before == snapshot_order(S, oid)
                  S1 == set_address(S, oid, new_addr)
                  after == snapshot_order(S1, oid)
              IN Result(push_action(S1, "change_address", oid, before, after, t), TRUE, MsgAddressUpdated(oid))
         ELSE Result(S, FALSE, MsgCantChangeAddress(oid, status))

change_address(S, oid, new_addr, t) ==
    IF ~has_order(S, oid) THEN Result(S, FALSE, MsgNotFound(oid))
    ELSE LET status == get_order(S, oid).status IN
         IF status = "Processing"
         THEN LET before == snapshot_order(S, oid)
                  S1 == set_address(S, oid, new_addr)
                  after == snapshot_order(S1, oid)
              IN Result(push_action(S1, "change_address", oid, before, after, t), TRUE, MsgAddressUpdated(oid))
         ELSE Result(S, FALSE, MsgCantChangeAddress(oid, status))

-----------------------------------------------------------------------------
(* Intent planner (app.py).  A user text is the sequence of its words; a     *)
(* keyword test "w in text" is decided by the keywords each word contains.   *)

\* str.lower() of a word
Lower(w) ==
    CASE w = "DON'T" -> "don't"
      [] w = "Cancel" -> "cancel"
      [] w = "ORD10074" -> "ord10074"
      [] w = "ORD10071" -> "ord10071"
      [] w = "ORD10072" -> "ord10072"
      [] w = "ORD10078" -> "ord10078"
      [] w = "ORD99999" -> "ord99999"
      [] OTHER -> w

lower(text) == [i \in 1..Len(text) |-> Lower(text[i])]

\* the pattern occurs in the text as consecutive words
Occurs(pat, text) ==
    \E i \in 1..(Len(text) - Len(pat) + 1) : SubSeq(text, i, i + Len(pat) - 1) = pat

NEG_CANCEL_PATTERNS ==
    {<<"no", "need", "to", "cancel">>, <<"don't", "cancel">>, <<"dont", "cancel">>,
     <<"do", "not", "cancel">>, <<"no", "cancel">>, <<"not", "cancel">>, <<"never", "cancel">>,
     <<"keep", "the", "order">>, <<"i", "want", "the", "order">>,
     <<"cancel", "isn't", "needed">>, <<"cancel", "isnt", "needed">>}

neg_cancel(text) == \E pat \in NEG_CANCEL_PATTERNS : Occurs(pat, lower(text))

\* the keywords of _fallback_intent that are substrings of a (lowered) word
KeywordsIn(w) ==
    CASE w = "where" -> {"where"}
      [] w = "status" -> {"status"}
      [] w = "track" -> {"track"}
      [] w = "details" -> {"eta"}
      [] w = "cancel" -> {"cancel"}
      [] w = "cancellation" -> {"cancel"}
      [] w = "return" -> {"return"}
      [] w = "refund" -> {"refund"}
      [] w = "address" -> {"address"}
      [] w = "orders" -> {"orders"}
      [] w = "delay" -> {"delay"}
      [] w = "delayed" -> {"delay", "delayed"}
      [] w = "average" -> {"average"}
      [] w = "time" -> {"time"}
      [] OTHER -> {}

Has(tl, w) == \E i \in 1..Len(tl) : w \in KeywordsIn(tl[i])

fallback_intent(t) ==
    LET tl == lower(t) IN
    IF neg_cancel(tl) THEN "keep_order"
    ELSE IF \E w \in {"where", "status", "track", "eta"} : Has(tl, w) THEN "track"
    ELSE IF Has(tl, "cancel") THEN "cancel"
    ELSE IF Has(tl, "return") /\ ~Has(tl, "status") THEN "start_return"
    ELSE IF Has(tl, "refund") THEN "refund_policy_or_status"
    ELSE IF Has(tl, "address") THEN "change_address"
    ELSE IF Has(tl, "orders") THEN "list_orders"
    ELSE IF Occurs(<<"so", "much", "time">>, tl) \/ Occurs(<<"so", "long">>, tl)
            \/ Has(tl, "delay") \/ Has(tl, "delayed") THEN "delay_reason"
    ELSE IF Has(tl, "average") /\ Has(tl, "time") THEN "avg_time"
    ELSE "general_question"

\* a key the parsed JSON object does not hold
Absent == "<absent>"

NoActions == [has |-> FALSE, v |-> <<>>]
Actions(v) == [has |-> TRUE, v |-> v]

\* what _openai_client() and the completion call give ai_plan
NoClient == [kind |-> "no_client"]
Failed == [kind |-> "failed"]
Json(intent, target, address, acts) ==
    [kind |-> "json", intent |-> intent, target_order_id |-> target,
     address_text |-> address, actions |-> acts]

\* the object json.loads returns; {} after any exception
EmptyPlan == Json(Absent, Absent, Absent, NoActions)

Parsed(reply) == IF reply.kind = "json" THEN reply ELSE EmptyPlan

Member(x, seq) == \E i \in 1..Len(seq) : seq[i] = x

\* an override that appends general_chat instead of inserting it at the front
neg_cancel_override_append(p) ==
    LET acts == IF p.actions.has THEN p.actions.v ELSE <<>> IN
    [p EXCEPT !.intent = "keep_order",
              !.actions = Actions(IF Member("general_chat", acts) THEN acts
                                  ELSE Append(acts, "general_chat"))]

\* plan["intent"] = "keep_order"; plan["actions"] = plan.get("actions") or [];
\* insert general_chat at 0 when it is not in the list
neg_cancel_override(p) ==
    LET acts == IF p.actions.has THEN p.actions.v ELSE <<>> IN
    [p EXCEPT !.intent = "keep_order",
              !.actions = Actions(IF Member("general_chat", acts) THEN acts
                                  ELSE <<"general_chat">> \o acts)]

\* plan.setdefault(key, default) for the keys the dispatcher reads
set_defaults(p, user_text, active) ==
    [intent |-> IF p.intent = Absent THEN fallback_intent(user_text) ELSE p.intent,
     target_order_id |-> IF p.target_order_id = Absent THEN active ELSE p.target_order_id,
     address_text |-> IF p.address_text = Absent THEN None ELSE p.address_text,
     actions |-> IF p.actions.has THEN p.actions.v ELSE <<"general_chat">>]

\* an ai_plan that lets the model's intent stand
ai_plan_no_override(user_text, active, has_orders, reply) ==
    IF reply.kind = "no_client"
    THEN [intent |-> fallback_intent(user_text), target_order_id |-> active,
          address_text |-> None, actions |-> <<"general_chat">>]
    ELSE set_defaults(Parsed(reply), user_text, active)

\* an ai_plan whose keyword fallback plans the cancel_order action for a cancel intent
ai_plan_fallback_actions(user_text, active, has_orders, reply) ==
    IF reply.kind = "no_client"
    THEN [intent |-> fallback_intent(user_text), target_order_id |-> active,
          address_text |-> None,
          actions |-> IF fallback_intent(user_text) = "cancel"
                      THEN <<"cancel_order">> ELSE <<"general_chat">>]
    ELSE LET p0 == Parsed(reply)
             p1 == IF neg_cancel(user_text) THEN neg_cancel_override(p0) ELSE p0
         IN set_defaults(p1, user_text, active)

ai_plan(user_text, active, has_orders, reply) ==
    IF reply.kind = "no_client"
    THEN [intent |-> fallback_intent(user_text), target_order_id |-> active,
          address_text |-> None, actions |-> <<"general_chat">>]
    ELSE LET p0 == Parsed(reply)
             p1 == IF neg_cancel(user_text) THEN neg_cancel_override(p0) ELSE p0
         IN set_defaults(p1, user_text, active)

-----------------------------------------------------------------------------
(* Analytics helpers and the action dispatcher (app.py) *)

\* _parse_date: the day of an ISO string, nothing for None or a string that does not parse
parse_date(x) == IF Truthy(x) /\ Parses(x) THEN {x.d} ELSE {}

\* the orders compute_avg_delivery_days keeps: Delivered, matching the filters,
\* with both dates and delivered >= ship
Qualifying(S, item, courier) ==
    {o \in DOMAIN S.orders :
        /\ S.orders[o].status = "Delivered"
        /\ (item # None => Member(item, S.orders[o].items))
        /\ (courier # None => courier = S.orders[o].courier)
        /\ \E ship \in parse_date(S.orders[o].ship_date),
              delivered \in parse_date(S.orders[o].delivered_date) : delivered >= ship}

RECURSIVE SumDays(_, _)
SumDays(S, ids) ==
    IF ids = {} THEN 0
    ELSE LET o == CHOOSE x \in ids : TRUE IN
         (S.orders[o].delivered_date.d - S.orders[o].ship_date.d) + SumDays(S, ids \ {o})

\* a compute_avg_delivery_days that reports the longest delivery, not the mean
compute_avg_delivery_days_longest(S, item, courier) ==
    LET q == Qualifying(S, item, courier)
        longest == IF q = {} THEN 0
                   ELSE LET o == CHOOSE x \in q : \A y \in q :
                                    S.orders[y].delivered_date.d - S.orders[y].ship_date.d
                                       <= S.orders[x].delivered_date.d - S.orders[x].ship_date.d
                        IN S.orders[o].delivered_date.d - S.orders[o].ship_date.d
    IN [sum |-> longest * Cardinality(q), n |-> Cardinality(q)]

\* (sum(days)/len(days), len(days)) as the pair sum, n; (None, 0) has n = 0
compute_avg_delivery_days(S, item, courier) ==
    LET q == Qualifying(S, item, courier) IN
    [sum |-> SumDays(S, q), n |-> Cardinality(q)]

\* bool(avg): None and 0.0 are both false
AvgTruthy(avg) == avg.n > 0 /\ avg.sum # 0

\* bool(x) of an Optional[str]
Falsy(x) == x \in {None, ""}

\* the first word of the text that is an order id, in upper case
IsOrderId(w) == Lower(w) \in {"ord10074", "ord10071", "ord10072", "ord10078", "ord99999"}

Upper(w) ==
    CASE Lower(w) = "ord10074" -> "ORD10074"
      [] Lower(w) = "ord10071" -> "ORD10071"
      [] Lower(w) = "ord10072" -> "ORD10072"
      [] Lower(w) = "ord10078" -> "ORD10078"
      [] Lower(w) = "ord99999" -> "ORD99999"
      [] OTHER -> w

extract_order_id(text) ==
    IF \E i \in 1..Len(text) : IsOrderId(text[i])
    THEN Upper(text[CHOOSE i \in 1..Len(text) :
                        IsOrderId(text[i]) /\ \A j \in 1..(i - 1) : ~IsOrderId(text[j])])
    ELSE None

find_by_phone(S, phone) == {o \in DOMAIN S.orders : S.orders[o].phone = phone}

DEMO_FALLBACK_PHONE == "9876543210"

get_orders_for_session(S, phone) ==
    IF ~Falsy(phone) /\ find_by_phone(S, phone) # {} THEN find_by_phone(S, phone)
    ELSE IF find_by_phone(S, DEMO_FALLBACK_PHONE) # {} THEN find_by_phone(S, DEMO_FALLBACK_PHONE)
    ELSE DOMAIN S.orders

\* hits sorted by order_date, latest first: its head
TopOrder(S, hits) ==
    CHOOSE o \in hits : \A x \in hits : S.orders[x].order_date.d <= S.orders[o].order_date.d

MsgShareId == <<"Share your order ID or select one on the left">>
MsgStatus(oid, status) == <<"status", oid, status>>
MsgKept == <<"Understood, I'll keep your order as is. No cancellation.">>
MsgWhichCancel == <<"Which order should I cancel?">>
MsgConfirmCancel(oid) == <<"Please confirm: cancel", oid>>
MsgShareReturnId == <<"Share the order ID to start a return.">>
MsgConfirmReturn(oid) == <<"Please confirm: start a return for", oid>>
MsgWhichAddress == <<"Which order should I update the address for?">>
MsgTellAddress == <<"Tell me the new address">>
MsgConfirmAddress(oid, addr) == <<"Please confirm: update address to", oid, addr>>
MsgNoOrders == <<"I don't see any orders on this login yet.">>
MsgFoundOrders(n, top) == <<"I found orders on your account", n, top>>
MsgWhichDelay == <<"Which order are you referring to?">>
MsgDelay(oid, status) == <<"is currently", oid, status>>
MsgAverage(scope, avg) == <<"Average delivery time", scope, avg.sum, avg.n>>

\* a set_pending that writes into the dict already there
set_pending_update(kind, oid, address) ==
    [type |-> kind, oid |-> oid,
     address |-> IF Falsy(address) THEN pending_action.address ELSE address]

\* st.session_state.pending_action = {"type": kind, "oid": oid}, with the address when given
set_pending(kind, oid, address) ==
    [type |-> kind, oid |-> oid, address |-> IF Falsy(address) THEN None ELSE address]

\* The working context D of one turn: the target oid, the results, the session
\* fields the loop writes, the store it reads, and whether the loop has broken off.
\* E holds what the loop only reads: the text, the plan, the flags.

\* a set_active_from_text that does not look the id up
do_set_active_from_text_no_lookup(D, E) ==
    LET maybe == extract_order_id(E.text) IN
    IF ~Falsy(maybe) THEN [D EXCEPT !.active = maybe, !.oid = maybe] ELSE D

do_set_active_from_text(D, E) ==
    LET maybe == extract_order_id(E.text) IN
    IF ~Falsy(maybe) /\ has_order(D.S, maybe)
    THEN [D EXCEPT !.active = maybe, !.oid = maybe]
    ELSE D

\* a track_order that does not break out of the loop when it fails
do_track_order_no_break(D, E) ==
    IF Falsy(D.oid) THEN [D EXCEPT !.local_result = MsgShareId]
    ELSE IF ~has_order(D.S, D.oid) THEN [D EXCEPT !.local_result = MsgNotFound(D.oid)]
    ELSE [D EXCEPT !.local_result = MsgStatus(D.oid, get_order(D.S, D.oid).status)]

do_track_order(D, E) ==
    IF Falsy(D.oid) THEN [D EXCEPT !.local_result = MsgShareId, !.stopped = TRUE]
    ELSE IF ~has_order(D.S, D.oid)
    THEN [D EXCEPT !.local_result = MsgNotFound(D.oid), !.stopped = TRUE]
    ELSE [D EXCEPT !.local_result = MsgStatus(D.oid, get_order(D.S, D.oid).status)]

\* a cancel_order handler that cancels at once
do_cancel_order_direct(D, E) ==
    IF neg_cancel(E.text) THEN [D EXCEPT !.local_result = MsgKept]
    ELSE IF Falsy(D.oid) THEN [D EXCEPT !.local_result = MsgWhichCancel]
    ELSE [D EXCEPT !.S = cancel_order(D.S, D.oid, E.now).S,
                   !.local_result = MsgConfirmCancel(D.oid)]

\* a cancel_order handler that does not test the text for a negated cancel
do_cancel_order_no_guard(D, E) ==
    IF Falsy(D.oid) THEN [D EXCEPT !.local_result = MsgWhichCancel]
    ELSE [D EXCEPT !.pending = IF has_order(D.S, D.oid)
                                THEN set_pending("cancel", D.oid, None) ELSE @,
                   !.local_result = MsgConfirmCancel(D.oid)]

do_cancel_order(D, E) ==
    IF neg_cancel(E.text) THEN [D EXCEPT !.local_result = MsgKept]
    ELSE IF Falsy(D.oid) THEN [D EXCEPT !.local_result = MsgWhichCancel]
    ELSE [D EXCEPT !.pending = IF has_order(D.S, D.oid)
                                THEN set_pending("cancel", D.oid, None) ELSE @,
                   !.local_result = MsgConfirmCancel(D.oid)]

do_start_return(D, E) ==
    IF Falsy(D.oid) THEN [D EXCEPT !.local_result = MsgShareReturnId]
    ELSE [D EXCEPT !.pending = IF has_order(D.S, D.oid)
                                THEN set_pending("start_return", D.oid, None) ELSE @,
                   !.local_result = MsgConfirmReturn(D.oid)]

do_change_address(D, E) ==
    IF Falsy(D.oid) THEN [D EXCEPT !.local_result = MsgWhichAddress]
    ELSE LET new_addr == E.plan.address_text IN
         IF Falsy(new_addr) THEN [D EXCEPT !.local_result = MsgTellAddress]
         ELSE [D EXCEPT !.pending = IF has_order(D.S, D.oid)
                                     THEN set_pending("change_address", D.oid, new_addr) ELSE @,
                        !.local_result = MsgConfirmAddress(D.oid, new_addr)]

do_list_orders(D, E) ==
    LET hits == get_orders_for_session(D.S, E.phone) IN
    IF hits = {} THEN [D EXCEPT !.local_result = MsgNoOrders]
    ELSE LET top == TopOrder(D.S, hits) IN
         [D EXCEPT !.active = top, !.local_result = MsgFoundOrders(Cardinality(hits), top)]

do_explain_delay(D, E) ==
    IF Falsy(D.oid) THEN [D EXCEPT !.local_result = MsgWhichDelay]
    ELSE IF ~has_order(D.S, D.oid) THEN [D EXCEPT !.local_result = MsgNotFound(D.oid)]
    ELSE [D EXCEPT !.local_result = MsgDelay(D.oid, get_order(D.S, D.oid).status)]

do_compute_avg(D, E) ==
    LET found == ~Falsy(D.oid) /\ has_order(D.S, D.oid)
        item == IF found /\ Len(get_order(D.S, D.oid).items) > 0
                THEN get_order(D.S, D.oid).items[1] ELSE None
        first == compute_avg_delivery_days(D.S, item, None)
        avg == IF AvgTruthy(first) THEN first ELSE compute_avg_delivery_days(D.S, None, None)
    IN IF AvgTruthy(avg)
       THEN [D EXCEPT !.local_result = MsgAverage(IF item # None THEN item ELSE "overall", avg)]
       ELSE D

do_web_research(D, E) ==
    [D EXCEPT !.web_result = IF E.web_enabled THEN "web answer" ELSE "Internet is disabled in the sidebar."]

do_general_chat(D, E) ==
    IF Falsy(D.web_result) THEN [D EXCEPT !.web_result = "chat reply"] ELSE D

dispatch_action(D, act, E) ==
    CASE act = "set_active_from_text" -> do_set_active_from_text(D, E)
      [] act = "track_order" -> do_track_order(D, E)
      [] act = "cancel_order" -> do_cancel_order(D, E)
      [] act = "start_return" -> do_start_return(D, E)
      [] act = "change_address" -> do_change_address(D, E)
      [] act = "list_orders" -> do_list_orders(D, E)
      [] act = "explain_delay" -> do_explain_delay(D, E)
      [] act = "compute_avg" -> do_compute_avg(D, E)
      [] act = "web_research" -> do_web_research(D, E)
      [] act = "general_chat" -> do_general_chat(D, E)
      [] OTHER -> D

\* for act in plan["actions"], from the i-th on, until a break
RECURSIVE run_actions(_, _, _, _)
run_actions(D, acts, i, E) ==
    IF i > Len(acts) \/ D.stopped THEN D
    ELSE run_actions(dispatch_action(D, acts[i], E), acts, i + 1, E)

\* the dispatch of one turn's plan p, from the session's state
run_plan(S, pending, active, text, p, web_enabled, phone, t) ==
    LET D0 == [oid |-> IF Falsy(p.target_order_id) THEN active ELSE p.target_order_id,
               local_result |-> NoResult, web_result |-> None,
               pending |-> pending, active |-> active, stopped |-> FALSE, S |-> S]
        E == [text |-> text, plan |-> p, web_enabled |-> web_enabled, phone |-> phone, now |-> t]
    IN run_actions(D0, p.actions, 1, E)

-----------------------------------------------------------------------------
(* The Store and Toolkit as called by any client: StoreSpec *)

Ret(op, oid, r) == [op |-> op, oid |-> oid, ok |-> r.ok, msg |-> r.msg]

\* the Store's attributes become those of S
Install(S) ==
    /\ orders' = S.orders
    /\ actions' = S.actions
    /\ last_action' = S.last_action
    /\ action_seq' = S.action_seq
    /\ shared' = S.shared

\* the order ids clients pass: one order of every seeded kind that differs in
\* behaviour, every order of the edge store, and an id no store holds
TargetIds == {"ORD10074", "ORD10071", "ORD10072", "ORD10076",
              "ORD10002", "ORD10003", "ORD10004", "ORD10005"}

Targets == (DOMAIN orders \cap TargetIds) \cup {UnknownId}

\* room in the bounded log for the entry a successful mutation appends
LogRoom(r) == r.ok => action_seq < MaxActions

StoreInit ==
    /\ orders \in InitStores
    /\ actions = <<>>
    /\ last_action = 0
    /\ action_seq = 0
    /\ shared = [oid \in DOMAIN orders |-> 0]
    /\ now = 0
    /\ today = 0
    /\ ret = NoRet
    /\ pending_action = NoPending
    /\ active_oid = None
    /\ processing = FALSE
    /\ local_result = NoResult
    /\ plan_in = NoPlanIn
    /\ plan = NoPlan
    /\ rule_in = NoRuleIn
    /\ rule_out = NoRuleOut
    /\ avg_in = NoAvgIn
    /\ avg_out = NoAvgOut

CancelOrder(oid) ==
    \E r \in {cancel_order(StoreState, oid, now)} :
    /\ LogRoom(r)
    /\ Install(r.S)
    /\ ret' = Ret("cancel_order", oid, r)
    /\ UNCHANGED <<now, today, session_vars, plan_vars, rule_vars, avg_vars>>

StartReturn(oid) ==
    \E r \in {start_return(StoreState, oid, now, today)} :
    /\ LogRoom(r)
    /\ Install(r.S)
    /\ ret' = Ret("start_return", oid, r)
    /\ UNCHANGED <<now, today, session_vars, plan_vars, rule_vars, avg_vars>>

ChangeAddress(oid, new_addr) ==
    \E r \in {change_address(StoreState, oid, new_addr, now)} :
    /\ LogRoom(r)
    /\ Install(r.S)
    /\ ret' = Ret("change_address", oid, r)
    /\ UNCHANGED <<now, today, session_vars, plan_vars, rule_vars, avg_vars>>

UndoLast ==
    \E r \in {undo_last(StoreState, now)} :
    /\ Install(r.S)
    /\ ret' = Ret("undo_last", None, r)
    /\ UNCHANGED <<now, today, session_vars, plan_vars, rule_vars, avg_vars>>

\* wall-clock time passes between two calls
TickSteps == {Grace - 1, Grace, Grace + 1}

Tick(d) ==
    /\ now + d <= MaxTime * TimeScale
    /\ now' = now + d
    /\ UNCHANGED <<store_vars, today, ret, session_vars, plan_vars, rule_vars, avg_vars>>

\* the calendar date changes between two calls
Midnight ==
    /\ today < MaxDays
    /\ today' = today + 1
    /\ UNCHANGED <<store_vars, now, ret, session_vars, plan_vars, rule_vars, avg_vars>>

StoreNext ==
    \/ \E oid \in Targets : CancelOrder(oid)
    \/ \E oid \in Targets : StartReturn(oid)
    \/ \E oid \in Targets, a \in NewAddresses : ChangeAddress(oid, a)
    \/ UndoLast
    \/ \E d \in TickSteps : Tick(d)
    \/ Midnight

StoreSpec == StoreInit /\ [][StoreNext]_vars

-----------------------------------------------------------------------------
(* The chat session (app.py): Spec.  A session lasts less than the grace     *)
(* period and sees no change of date: while the clock stands, the Undo       *)
(* button is offered whenever there is a last action, which is the most the  *)
(* session ever allows; StoreSpec covers the passing of time.                *)

TurnTexts ==
    {<<"DON'T", "Cancel", "ORD10078">>,
     <<"cancel", "ORD99999">>,
     <<"where", "is", "ord10078">>,
     <<"hello">>}

TurnReplies ==
    {NoClient, Failed,
     Json("cancel", Absent, Absent, Actions(<<"cancel_order">>)),
     Json("cancel", "ORD10071", Absent, Actions(<<"cancel_order">>)),
     Json("cancel", UnknownId, Absent, Actions(<<"cancel_order">>)),
     Json("start_return", Absent, Absent, Actions(<<"start_return">>)),
     Json("start_return", "ORD10071", Absent, Actions(<<"start_return">>)),
     Json("start_return", UnknownId, Absent, Actions(<<"start_return">>)),
     Json("change_address", Absent, "12 Park Lane, Mumbai", Actions(<<"change_address">>)),
     Json("change_address", Absent, Absent, Actions(<<"change_address">>)),
     Json("change_address", Absent, "", Actions(<<"change_address">>)),
     Json("change_address", UnknownId, "12 Park Lane, Mumbai", Actions(<<"change_address">>)),
     Json("track", Absent, Absent, Actions(<<"track_order">>)),
     Json("track", UnknownId, Absent, Actions(<<"track_order">>)),
     Json("track", UnknownId, Absent, Actions(<<"track_order", "cancel_order">>)),
     Json("track", Absent, Absent, Actions(<<"track_order", "cancel_order">>)),
     Json("track", "ORD10071", Absent, Actions(<<"track_order", "start_return">>)),
     Json("delay_reason", Absent, Absent, Actions(<<"explain_delay">>)),
     Json("delay_reason", UnknownId, Absent, Actions(<<"explain_delay", "start_return">>)),
     Json("cancel", Absent, Absent, Actions(<<"cancel_order", "start_return">>)),
     Json(Absent, Absent, Absent, Actions(<<"set_active_from_text", "cancel_order">>)),
     Json("list_orders", Absent, Absent, Actions(<<"list_orders">>)),
     Json("avg_time", Absent, Absent, Actions(<<"compute_avg">>)),
     Json("general_question", Absent, Absent, Actions(<<"web_research", "general_chat">>)),
     Json(Absent, Absent, Absent, NoActions)}

WebSettings == BOOLEAN

\* the orders whose "Set Active" button the user presses
ActiveChoices == {"ORD10078"}

UserPhone == "9876543210"

Init ==
    /\ orders = seed_demo("9876543210", 0)
    /\ actions = <<>>
    /\ last_action = 0
    /\ action_seq = 0
    /\ shared = [oid \in DOMAIN orders |-> 0]
    /\ now = 0
    /\ today = 0
    /\ ret = NoRet
    /\ pending_action = NoPending
    /\ active_oid = None
    /\ processing = FALSE
    /\ local_result = NoResult
    /\ plan_in = NoPlanIn
    /\ plan = NoPlan
    /\ rule_in = NoRuleIn
    /\ rule_out = NoRuleOut
    /\ avg_in = NoAvgIn
    /\ avg_out = NoAvgOut

\* the active order ai_plan is given: (active or {}).get("order_id")
KnownActive(S, active) == IF ~Falsy(active) /\ has_order(S, active) THEN active ELSE None

\* the user sends a message: the planner and the dispatcher run
Turn(text, reply, web_enabled) ==
    /\ ~processing
    /\ \E pin \in {[text |-> text, active |-> KnownActive(StoreState, active_oid),
                    has_orders |-> get_orders_for_session(StoreState, UserPhone) # {},
                    reply |-> reply]} :
       \E p \in {ai_plan(pin.text, pin.active, pin.has_orders, pin.reply)} :
       \E D \in {run_plan(StoreState, pending_action, active_oid, text, p, web_enabled, UserPhone, now)} :
          /\ Install(D.S)
          /\ pending_action' = D.pending
          /\ active_oid' = D.active
          /\ local_result' = D.local_result
          /\ plan_in' = pin
          /\ plan' = p
          /\ UNCHANGED <<rule_vars, avg_vars>>
    /\ processing' = TRUE
    /\ ret' = NoRet
    /\ UNCHANGED <<now, today>>

\* the answer is composed and shown; the turn's locals are gone
TurnEnd ==
    /\ processing
    /\ processing' = FALSE
    /\ local_result' = NoResult
    /\ plan_in' = NoPlanIn
    /\ plan' = NoPlan
    /\ UNCHANGED <<rule_vars, avg_vars>>
    /\ UNCHANGED <<store_vars, now, today, ret, pending_action, active_oid>>

\* the Toolkit operation a pending confirmation of a kind stands for
tool_of(kind) == IF kind = "cancel" THEN "cancel_order" ELSE kind

\* the Toolkit call of the Confirm button
confirm_call(S, pa, t, day) ==
    IF pa.type = "cancel" THEN cancel_order(S, pa.oid, t)
    ELSE IF pa.type = "start_return" THEN start_return(S, pa.oid, t, day)
    ELSE IF pa.type = "change_address"
    THEN change_address(S, pa.oid, IF pa.address = None THEN "" ELSE pa.address, t)
    ELSE Result(S, FALSE, <<"Unknown action.">>)

Confirm ==
    /\ ~processing
    /\ pending_action # NoPending
    /\ \E r \in {confirm_call(StoreState, pending_action, now, today)} :
       /\ LogRoom(r)
       /\ Install(r.S)
       /\ ret' = Ret(tool_of(pending_action.type), pending_action.oid, r)
    /\ pending_action' = NoPending
    /\ UNCHANGED <<now, today, active_oid, processing, local_result, plan_vars, rule_vars, avg_vars>>

Dismiss ==
    /\ ~processing
    /\ pending_action # NoPending
    /\ pending_action' = NoPending
    /\ ret' = NoRet
    /\ UNCHANGED <<store_vars, now, today, active_oid, processing, local_result, plan_vars, rule_vars, avg_vars>>

\* the Undo button, shown while last_action_info() reports can_undo
UndoClick ==
    /\ ~processing
    /\ last_action_info(StoreState, now).can_undo
    /\ \E r \in {undo_last(StoreState, now)} :
       /\ Install(r.S)
       /\ ret' = Ret("undo_last", None, r)
    /\ UNCHANGED <<now, today, session_vars, plan_vars, rule_vars, avg_vars>>

\* the "Set Active" button of an order card
SetActive(oid) ==
    /\ ~processing
    /\ oid \in get_orders_for_session(StoreState, UserPhone)
    /\ active_oid' = oid
    /\ ret' = NoRet
    /\ UNCHANGED <<store_vars, now, today, pending_action, processing, local_result, plan_vars, rule_vars, avg_vars>>

\* what the user types into the search box: an unknown id, an id in lower case,
\* a word of an item name, a word of no item name
SearchQueries == {"ORD99999", "ord10078", "cable", "tablet"}

\* q.lower() in item.lower(), for the queries of SearchQueries
ItemHolds(item, q) == q = "cable" /\ item = "USB-C Cable 2m"

\* the keys of the seeded orders dict, in the order the dict holds them
seed_keys ==
    <<"ORD10071", "ORD10072", "ORD10073", "ORD10074", "ORD10075",
      "ORD10076", "ORD10077", "ORD10078", "ORD10079">>

\* hits[0] of a non-empty list of orders taken from the dict in its order
FirstHit(hits) ==
    seed_keys[CHOOSE i \in DOMAIN seed_keys :
                  seed_keys[i] \in hits /\ \A j \in 1..(i - 1) : seed_keys[j] \notin hits]

\* the orders an item search finds: the session's orders that match, else any order that matches
search_hits(S, phone, q) ==
    LET matches(o) == \E i \in 1..Len(S.orders[o].items) : ItemHolds(S.orders[o].items[i], q)
        mine == {o \in get_orders_for_session(S, phone) : matches(o)}
    IN IF mine # {} THEN mine ELSE {o \in DOMAIN S.orders : matches(o)}

\* the active order after the Search button is pressed with the query q
search_active(S, active, phone, q) ==
    IF IsOrderId(q)
    THEN IF has_order(S, Upper(q)) THEN Upper(q) ELSE active
    ELSE IF search_hits(S, phone, q) # {} THEN FirstHit(search_hits(S, phone, q)) ELSE active

\* the Search button, with a query in the search box
Search(q) ==
    /\ ~processing
    /\ active_oid' = search_active(StoreState, active_oid, UserPhone, q)
    /\ ret' = NoRet
    /\ UNCHANGED <<store_vars, now, today, pending_action, processing, local_result, plan_vars, rule_vars, avg_vars>>

Next ==
    \/ \E text \in TurnTexts, reply \in TurnReplies, web \in WebSettings : Turn(text, reply, web)
    \/ TurnEnd
    \/ Confirm
    \/ Dismiss
    \/ UndoClick
    \/ \E oid \in ActiveChoices : SetActive(oid)
    \/ \E q \in SearchQueries : Search(q)

Spec == Init /\ [][Next]_vars

-----------------------------------------------------------------------------
(* The planner called on its own: PlanSpec *)

Texts ==
    {<<"please", "don't", "cancel", "my", "order">>,
     <<"DON'T", "Cancel", "ORD10074">>,
     <<"dont", "cancel", "ORD10074">>,
     <<"do", "not", "cancel">>,
     <<"no", "need", "to", "cancel", "ORD10074">>,
     <<"keep", "the", "order">>,
     <<"cancel", "isnt", "needed">>,
     <<"cancel", "ORD10074">>,
     <<"cancel", "ORD99999">>,
     <<"where", "is", "ord10071">>,
     <<"return", "ORD10071">>,
     <<"return", "status">>,
     <<"refund", "details">>,
     <<"change", "address", "for", "ORD10074">>,
     <<"my", "orders">>,
     <<"why", "so", "long">>,
     <<"average", "delivery", "time">>,
     <<"hello">>}

ReplyIntents == {Absent, "cancel", "track"}

ReplyTargets == {Absent, None, "ORD10074", UnknownId}

ReplyActions ==
    {NoActions, Actions(<<>>), Actions(<<"cancel_order">>), Actions(<<"general_chat">>),
     Actions(<<"track_order", "cancel_order">>), Actions(<<"cancel_order", "general_chat">>)}

Replies ==
    {NoClient, Failed}
    \cup {Json(i, t, Absent, a) : i \in ReplyIntents, t \in ReplyTargets, a \in ReplyActions}

PlanInputs ==
    [text : Texts, active : {None, "ORD10071"}, has_orders : {TRUE}, reply : Replies]

PlanInit ==
    /\ orders = seed_demo("9876543210", 0)
    /\ actions = <<>>
    /\ last_action = 0
    /\ action_seq = 0
    /\ shared = [oid \in DOMAIN orders |-> 0]
    /\ now = 0
    /\ today = 0
    /\ ret = NoRet
    /\ pending_action = NoPending
    /\ active_oid = None
    /\ processing = FALSE
    /\ local_result = NoResult
    /\ plan_in \in PlanInputs
    /\ plan = NoPlan
    /\ rule_in = NoRuleIn
    /\ rule_out = NoRuleOut
    /\ avg_in = NoAvgIn
    /\ avg_out = NoAvgOut

PlanCall ==
    /\ plan = NoPlan
    /\ plan' = ai_plan(plan_in.text, plan_in.active, plan_in.has_orders, plan_in.reply)
    /\ UNCHANGED <<store_vars, now, today, ret, session_vars, plan_in, rule_vars, avg_vars>>

PlanNext == PlanCall

PlanSpec == PlanInit /\ [][PlanNext]_vars

-----------------------------------------------------------------------------
(* Properties of the planner, checked under PlanSpec *)

Planned == plan # NoPlan

\* the texts of Texts that hold a negated-cancel phrase, in any letter case
NegatedCancelTexts ==
    {<<"please", "don't", "cancel", "my", "order">>,
     <<"DON'T", "Cancel", "ORD10074">>,
     <<"dont", "cancel", "ORD10074">>,
     <<"do", "not", "cancel">>,
     <<"no", "need", "to", "cancel", "ORD10074">>,
     <<"keep", "the", "order">>,
     <<"cancel", "isnt", "needed">>}

\* C8: for a text that matches a negated-cancel pattern the plan's intent is
\* keep_order, with or without a model and whatever the model replied; with a
\* model, general_chat is in the plan's actions: first when the model's actions
\* did not hold it, and the model's actions follow in their order.
C8_NegatedCancelKeepsOrder ==
    (Planned /\ plan_in.text \in NegatedCancelTexts) =>
        /\ plan.intent = "keep_order"
        /\ plan_in.reply.kind # "no_client" =>
              LET given == IF plan_in.reply.kind = "json" /\ plan_in.reply.actions.has
                           THEN plan_in.reply.actions.v ELSE <<>>
              IN /\ Member("general_chat", plan.actions)
                 /\ ~Member("general_chat", given) => plan.actions = <<"general_chat">> \o given
                 /\ Member("general_chat", given) => plan.actions = given

\* the model proposed a cancellation for "DON'T Cancel ORD10074" and was overridden
C8_Witness ==
    /\ Planned
    /\ plan_in.text = <<"DON'T", "Cancel", "ORD10074">>
    /\ plan_in.reply.kind = "json"
    /\ plan_in.reply.intent = "cancel"
    /\ plan_in.reply.actions = Actions(<<"cancel_order">>)
    /\ plan.intent = "keep_order"
    /\ plan.actions = <<"general_chat", "cancel_order">>

-----------------------------------------------------------------------------
(* The eligibility rules called on their own: RuleSpec *)

\* every status of the status graph, and None for an order dict without one
RuleStatuses == Statuses \cup {None}

\* return_eligible_until: absent, unparseable, yesterday, day 0, day 1
RuleDates == {NoDate, BadDate, Iso(-1), Iso(0), Iso(1)}

RuleOrders ==
    {make_order("ORD10001", st, <<"Backpack">>, "9876543210", "Ekart", "EKT1",
                Iso(-6), Iso(-2), Iso(-2), due, "2 Main Road, Pune", Iso(-8), None) :
        st \in RuleStatuses, due \in RuleDates}
    \cup {NoOrder}

RuleInputs == [order : RuleOrders, today : 0..MaxDays]

RuleInit ==
    /\ orders = seed_demo("9876543210", 0)
    /\ actions = <<>>
    /\ last_action = 0
    /\ action_seq = 0
    /\ shared = [oid \in DOMAIN orders |-> 0]
    /\ now = 0
    /\ today = 0
    /\ ret = NoRet
    /\ pending_action = NoPending
    /\ active_oid = None
    /\ processing = FALSE
    /\ local_result = NoResult
    /\ plan_in = NoPlanIn
    /\ plan = NoPlan
    /\ rule_in \in RuleInputs
    /\ rule_out = NoRuleOut
    /\ avg_in = NoAvgIn
    /\ avg_out = NoAvgOut

RuleCall ==
    /\ rule_out = NoRuleOut
    /\ rule_out' = [called |-> TRUE,
                    can_cancel |-> can_cancel(rule_in.order),
                    is_return_eligible |-> is_return_eligible(rule_in.order, rule_in.today),
                    can_change_address |-> can_change_address(rule_in.order)]
    /\ UNCHANGED <<store_vars, now, today, ret, session_vars, plan_vars, rule_in, avg_vars>>

RuleNext == RuleCall

RuleSpec == RuleInit /\ [][RuleNext]_vars

\* C19: is_return_eligible(o, today) holds iff o is an order whose status is
\* Delivered or Return Initiated and whose return_eligible_until is present,
\* parses as a date and is not earlier than today; it is false for no order and
\* for a missing or unparseable date.
C19_ReturnEligibleIff ==
    rule_out.called =>
        LET o == rule_in.order IN
        /\ rule_out.is_return_eligible <=>
              /\ o # NoOrder
              /\ o.status \in {"Delivered", "Return Initiated"}
              /\ o.return_eligible_until.k = "iso"
              /\ rule_in.today <= o.return_eligible_until.d
        /\ o = NoOrder => ~rule_out.is_return_eligible
        /\ (o # NoOrder /\ o.return_eligible_until \in {NoDate, BadDate}) =>
              ~rule_out.is_return_eligible

\* a Return Initiated order whose window ends today was found eligible
C19_Witness ==
    /\ rule_out.called
    /\ rule_in.order # NoOrder
    /\ rule_in.order.status = "Return Initiated"
    /\ rule_in.today = 1
    /\ rule_in.order.return_eligible_until = Iso(1)
    /\ rule_out.is_return_eligible

\* C20: for every order, can_cancel(o) holds iff its status is Processing and
\* can_change_address(o) holds iff its status is Processing; so the two agree.
C20_CancelAndAddressRules ==
    (rule_out.called /\ rule_in.order # NoOrder) =>
        /\ rule_out.can_cancel <=> rule_in.order.status = "Processing"
        /\ rule_out.can_change_address <=> rule_in.order.status = "Processing"
        /\ rule_out.can_cancel <=> rule_out.can_change_address

\* both rules were applied to a Shipped order and both refused it
C20_Witness ==
    /\ rule_out.called
    /\ rule_in.order # NoOrder
    /\ rule_in.order.status = "Shipped"
    /\ ~rule_out.can_cancel
    /\ ~rule_out.can_change_address

-----------------------------------------------------------------------------
(* The delivery-time average, called on its own and by a turn: AvgSpec *)

\* the ISO string of the n-th of January 2023, day 0 being 2023-01-01
Jan2023(n) == Iso(n - 1)

AvgStatuses == {"Delivered", "Shipped"}
AvgShipA == {NoDate, BadDate, Jan2023(1)}
AvgDeliveredA == {NoDate, Jan2023(0), Jan2023(1), Jan2023(3)}
AvgShipB == {NoDate, Jan2023(1)}
AvgDeliveredB == {BadDate, Jan2023(1), Jan2023(5)}

\* stores of three orders: two whose status and dates vary, and one still Processing
AvgStores ==
    {("ORD20001" :> make_order("ORD20001", sa, <<"Backpack">>, "9876543210", "Ekart", "EKT1",
                   pa, Jan2023(3), da, NoDate, "2 Main Road, Pune", Jan2023(0), None))
     @@ ("ORD20002" :> make_order("ORD20002", sb, <<"Shirt">>, "9876543210", "BlueDart", "BDX1",
                   pb, Jan2023(5), db, NoDate, "3 Main Road, Pune", Jan2023(0), None))
     @@ ("ORD20003" :> make_order("ORD20003", "Processing", <<"Backpack">>, "9876543210", None, None,
                   NoDate, Jan2023(9), NoDate, NoDate, "4 Main Road, Pune", Jan2023(1), None)) :
        sa \in AvgStatuses, pa \in AvgShipA, da \in AvgDeliveredA,
        sb \in AvgStatuses, pb \in AvgShipB, db \in AvgDeliveredB}

AvgInputs == [item : {None, "Backpack"}, courier : {None, "Ekart"}]

AvgInit ==
    /\ orders \in AvgStores
    /\ actions = <<>>
    /\ last_action = 0
    /\ action_seq = 0
    /\ shared = [oid \in DOMAIN orders |-> 0]
    /\ now = 0
    /\ today = 0
    /\ ret = NoRet
    /\ pending_action = NoPending
    /\ active_oid = None
    /\ processing = FALSE
    /\ local_result = NoResult
    /\ plan_in = NoPlanIn
    /\ plan = NoPlan
    /\ rule_in = NoRuleIn
    /\ rule_out = NoRuleOut
    /\ avg_in \in AvgInputs
    /\ avg_out = NoAvgOut

AvgCall ==
    /\ avg_out = NoAvgOut
    /\ avg_out' = [called |-> TRUE,
                   avg |-> compute_avg_delivery_days(StoreState, avg_in.item, avg_in.courier)]
    /\ UNCHANGED <<store_vars, now, today, ret, session_vars, plan_vars, rule_vars, avg_in>>

AvgTexts == {<<"average", "delivery", "time">>}

\* the model plans the compute_avg action, for the active order, an order or an unknown id
AvgReplies ==
    {Json("avg_time", t, Absent, Actions(<<"compute_avg">>)) : t \in {Absent, "ORD20001", UnknownId}}

AvgNext ==
    \/ AvgCall
    \/ \E text \in AvgTexts, reply \in AvgReplies : Turn(text, reply, TRUE)
    \/ TurnEnd

AvgSpec == AvgInit /\ [][AvgNext]_vars

\* the call had no item and no courier filter, and the store's Delivered orders
\* are the two shipped 2023-01-01 and delivered 2023-01-03 and 2023-01-05
C21_Case ==
    /\ avg_out.called
    /\ avg_in = [item |-> None, courier |-> None]
    /\ {o \in DOMAIN orders : orders[o].status = "Delivered"} = {"ORD20001", "ORD20002"}
    /\ orders["ORD20001"].ship_date = Jan2023(1) /\ orders["ORD20001"].delivered_date = Jan2023(3)
    /\ orders["ORD20002"].ship_date = Jan2023(1) /\ orders["ORD20002"].delivered_date = Jan2023(5)

\* C21 (as stated): over a store whose only Delivered orders are two orders
\* shipped and delivered 2023-01-01 to 2023-01-03 and 2023-01-01 to 2023-01-05,
\* compute_avg_delivery_days without filters returns the average 4.0 with
\* sample count 2.
C21_AverageIsFour ==
    C21_Case => (avg_out.avg.n = 2 /\ avg_out.avg.sum = 4 * avg_out.avg.n)

\* C21 (amended): over that store compute_avg_delivery_days without filters
\* returns the average 3.0, the mean of 2 and 4 days, with sample count 2.
C21_AverageIsThree ==
    C21_Case => (avg_out.avg.n = 2 /\ avg_out.avg.sum = 3 * avg_out.avg.n)

\* the average of the 2-day and the 4-day delivery was computed
C21_Witness ==
    /\ C21_Case
    /\ avg_out.avg = [sum |-> 6, n |-> 2]

\* C22: a turn that runs the compute_avg action produces an average-delivery-time
\* result whenever at least one order of the Store qualifies (Delivered, both
\* dates present, delivered not before shipped), a mean of 0 days included;
\* it produces no result only when no order qualifies.
C22_AverageWheneverData ==
    (processing /\ plan.actions = <<"compute_avg">>) =>
        /\ Qualifying(StoreState, None, None) # {} =>
              (Len(local_result) = 4 /\ local_result[1] = "Average delivery time")
        /\ local_result = NoResult => Qualifying(StoreState, None, None) = {}

-----------------------------------------------------------------------------
(* Properties of the Store and the Toolkit, checked under StoreSpec *)

MutationOps == {"cancel_order", "start_return", "change_address"}

\* the last call was a Toolkit mutation that succeeded
JustMutated == ret.ok /\ ret.op \in MutationOps

MutationStep(oid) ==
    \/ CancelOrder(oid)
    \/ StartReturn(oid)
    \/ \E a \in NewAddresses : ChangeAddress(oid, a)

TimePasses == (\E d \in TickSteps : Tick(d)) \/ Midnight

LastEntry == actions[Len(actions)]

\* C1: a successful cancelOrder, startReturn or changeAddress records the order as
\* it was before the call; time passing leaves that record alone; and undoLast
\* called next, within the grace period, succeeds and leaves the order equal to
\* that record, field for field (status Processing again after a cancel).
C1_UndoRestoresSnapshot ==
    [][ /\ (ret'.ok /\ ret'.op \in MutationOps /\ MutationStep(ret'.oid)) =>
              /\ actions'[Len(actions')].oid = ret'.oid
              /\ actions'[Len(actions')].before = orders[ret'.oid]
        /\ (JustMutated /\ TimePasses) => actions' = actions
        /\ (JustMutated /\ now - LastEntry.ts <= Grace /\ UndoLast) =>
              /\ ret'.ok
              /\ LastEntry.oid = ret.oid
              /\ orders'[ret.oid] = LastEntry.before
              /\ (ret.op = "cancel_order" => orders'[ret.oid].status = "Processing")
      ]_vars

\* a cancel was undone after time had passed, still within the grace period
C1_Witness ==
    /\ ret.op = "undo_last" /\ ret.ok
    /\ Len(ret.msg) = 3 /\ ret.msg[2] = "cancel"
    /\ now > 0 /\ now - LastEntry.ts <= Grace
    /\ orders[LastEntry.oid].status = "Processing"
    /\ orders[LastEntry.oid] = LastEntry.before

\* C2: of two undoLast calls in a row after one successful mutation, the first
\* succeeds and clears the last-action pointer, and the second fails with the
\* "Nothing to undo." message and changes no order.
C2_SecondUndoNothingToUndo ==
    [][ /\ (JustMutated /\ UndoLast /\ now - LastEntry.ts <= Grace) =>
              (ret'.ok /\ last_action' = 0)
        /\ (ret.op = "undo_last" /\ ret.ok /\ UndoLast) =>
              /\ ~ret'.ok
              /\ ret'.msg = <<"Nothing to undo.">>
              /\ orders' = orders
      ]_vars

\* C3: undoLast called more than 300 s after the last recorded action fails with
\* the expiry message and changes no order, no log entry and not the pointer.
C3_ExpiredUndoChangesNothing ==
    [][ (UndoLast /\ last_action # 0 /\ now - actions[last_action].ts > Grace) =>
              /\ ~ret'.ok
              /\ ret'.msg = <<"Undo window has expired.">>
              /\ UNCHANGED store_vars
      ]_vars

\* an undo was refused for expiry with the pointer still set
C3_Witness ==
    /\ ret.op = "undo_last" /\ ~ret.ok
    /\ last_action # 0
    /\ now - actions[last_action].ts > Grace
    /\ orders[actions[last_action].oid] = actions[last_action].after

\* C4: only the most recent entry is ever the last action.  With entries A then B
\* in the log, undoLast reverts B's order to B's before-snapshot, changes no other
\* order and leaves A's effect in place; once the pointer is cleared undoLast
\* fails and changes nothing, however young A still is.
C4_OnlyLastEntryRevertible ==
    [][ /\ last_action \in {0, Len(actions)}
        /\ (UndoLast /\ Len(actions) >= 2 /\ last_action # 0 /\ now - LastEntry.ts <= Grace) =>
              LET B == LastEntry
                  A == actions[Len(actions) - 1]
              IN /\ ret'.ok
                 /\ orders'[B.oid] = B.before
                 /\ \A o \in DOMAIN orders : o # B.oid => orders'[o] = orders[o]
                 /\ shared[A.oid] # Len(actions) - 1 => orders'[A.oid] = A.after
                 /\ last_action' = 0
                 /\ actions' = actions
        /\ (UndoLast /\ last_action = 0) =>
              (~ret'.ok /\ UNCHANGED store_vars)
      ]_vars

\* B was undone, a further undo was refused, and A, younger than the grace period,
\* is still in effect
C4_Witness ==
    /\ Len(actions) = 2
    /\ ret.op = "undo_last" /\ ~ret.ok
    /\ last_action = 0
    /\ now - actions[1].ts <= Grace
    /\ actions[1].oid # actions[2].oid
    /\ orders[actions[1].oid] = actions[1].after
    /\ orders[actions[2].oid] = actions[2].before

\* C11: a Toolkit mutation asked of an order the Store holds and whose status
\* forbids it (cancelOrder or changeAddress when the status is not Processing,
\* startReturn when it is not Delivered) returns failure and changes no field
\* of any order, no log entry, nor the last-action pointer.
C11_ForbiddenStatusRefused ==
    [][ \A oid \in DOMAIN orders \cap Targets :
            /\ ( /\ orders[oid].status # "Processing"
                 /\ ret'.oid = oid
                 /\ (CancelOrder(oid) \/ \E a \in NewAddresses : ChangeAddress(oid, a)) ) =>
                    (~ret'.ok /\ UNCHANGED store_vars)
            /\ (orders[oid].status # "Delivered" /\ ret'.oid = oid /\ StartReturn(oid)) =>
                    (~ret'.ok /\ UNCHANGED store_vars)
      ]_vars

\* a change of address was refused for a Shipped order, after an earlier mutation
C11_Witness ==
    /\ ret.op = "change_address" /\ ~ret.ok
    /\ has_order(StoreState, ret.oid)
    /\ orders[ret.oid].status = "Shipped"
    /\ ret.msg = MsgCantChangeAddress(ret.oid, "Shipped")
    /\ last_action # 0

\* C12: cancelOrder, startReturn and changeAddress called with an id the Store
\* does not hold return failure with the "couldn't find" message and change no
\* order, no log entry, nor the last-action pointer.
C12_UnknownIdRefused ==
    [][ \A oid \in Targets \ DOMAIN orders :
            ( /\ ret'.oid = oid
              /\ (CancelOrder(oid) \/ StartReturn(oid) \/ \E a \in NewAddresses : ChangeAddress(oid, a)) ) =>
                /\ ~ret'.ok
                /\ ret'.msg = MsgNotFound(oid)
                /\ UNCHANGED store_vars
      ]_vars

\* a return was asked for ORD99999 while a last action was set
C12_Witness ==
    /\ ret.op = "start_return" /\ ~ret.ok
    /\ ret.oid = UnknownId
    /\ ret.oid \notin DOMAIN orders
    /\ ret.msg = MsgNotFound(UnknownId)
    /\ last_action # 0

\* C13: cancelOrder on an order of the Store whose status is Processing returns
\* success, sets the status to Cancelled and changes no other field of any
\* order, appends one log entry of kind cancel whose before and after snapshots
\* are the order just before and just after the change, and makes that entry
\* the last action.
C13_CancelProcessing ==
    [][ \A oid \in DOMAIN orders \cap Targets :
            (orders[oid].status = "Processing" /\ ret'.oid = oid /\ CancelOrder(oid)) =>
                /\ ret'.ok
                /\ orders' = [orders EXCEPT ![oid].status = "Cancelled"]
                /\ Len(actions') = Len(actions) + 1
                /\ actions'[Len(actions')].type = "cancel"
                /\ actions'[Len(actions')].oid = oid
                /\ actions'[Len(actions')].before = orders[oid]
                /\ actions'[Len(actions')].after = orders'[oid]
                /\ last_action' = Len(actions')
      ]_vars

\* a second entry was recorded by a cancel and is the last action
C13_Witness ==
    /\ ret.op = "cancel_order" /\ ret.ok
    /\ Len(actions) = 2
    /\ last_action = 2
    /\ actions[2].type = "cancel"
    /\ actions[2].before.status = "Processing"
    /\ orders[ret.oid].status = "Cancelled"

\* C14: a successful startReturn changes the status (to Return Initiated) and
\* the refund_status (to Pending Pickup) of its order and nothing else; a
\* successful changeAddress changes the address_line of its order (to the
\* address given) and nothing else: no other field, no other order.
C14_ReturnAndAddressFrame ==
    [][ \A oid \in DOMAIN orders \cap Targets :
            /\ (ret'.ok /\ ret'.oid = oid /\ StartReturn(oid)) =>
                  orders' = [orders EXCEPT ![oid].status = "Return Initiated",
                                           ![oid].refund_status = "Pending Pickup"]
            /\ \A a \in NewAddresses :
                  (ret'.ok /\ ret'.oid = oid /\ ChangeAddress(oid, a)) =>
                      orders' = [orders EXCEPT ![oid].address_line = a]
      ]_vars

\* a return was started on an order whose refund_status was something else
C14_Witness ==
    /\ ret.op = "start_return" /\ ret.ok
    /\ orders[ret.oid].status = "Return Initiated"
    /\ orders[ret.oid].refund_status = "Pending Pickup"
    /\ LastEntry.oid = ret.oid
    /\ LastEntry.before.refund_status # "Pending Pickup"
    /\ LastEntry.before.status = "Delivered"

\* C15: can_undo() is true iff a last action exists and at most 300 s have
\* passed since it was recorded; it is false before any mutation has been
\* recorded and after a successful undo_last, and true again as soon as a new
\* mutation is recorded.
C15_CanUndo ==
    [][ /\ can_undo(StoreState, now) <=>
              (last_action # 0 /\ now - actions[last_action].ts <= 300 * TimeScale)
        /\ (can_undo(StoreState, now) <=>
              (last_action # 0 /\ now - actions[last_action].ts <= 300 * TimeScale))'
        /\ actions = <<>> => ~can_undo(StoreState, now)
        /\ (ret'.ok /\ ret'.op = "undo_last" /\ UndoLast) => ~can_undo(StoreState, now)'
        /\ (ret'.ok /\ ret'.op \in MutationOps /\ MutationStep(ret'.oid)) =>
              can_undo(StoreState, now)'
      ]_vars

\* after an undo a new mutation was recorded, and it is exactly 300 s old
C15_Witness ==
    /\ \E o \in DOMAIN orders : shared[o] # 0
    /\ last_action = 2
    /\ now - actions[2].ts = 300 * TimeScale
    /\ can_undo(StoreState, now)

\* what identifies a log entry: its number, kind, order and time
EntryKey(e) == <<e.id, e.type, e.oid, e.ts>>

\* C16: the action log only grows.  The k-th entry has number k; a successful
\* Toolkit mutation appends one entry, numbered one more than the entry before
\* it, and leaves the earlier entries in place and in order; a failed operation
\* and undo_last leave the log exactly as it was; nothing else touches it.
C16_LogOnlyGrows ==
    [][ /\ \A k \in DOMAIN actions : actions[k].id = k
        /\ \A k \in DOMAIN actions' : actions'[k].id = k
        /\ Len(actions') >= Len(actions)
        /\ \A k \in DOMAIN actions : EntryKey(actions'[k]) = EntryKey(actions[k])
        /\ (ret'.ok /\ ret'.op \in MutationOps /\ MutationStep(ret'.oid)) =>
              /\ Len(actions') = Len(actions) + 1
              /\ actions # <<>> => actions'[Len(actions')].id = LastEntry.id + 1
        /\ (~ret'.ok /\ ret'.op \in MutationOps /\ MutationStep(ret'.oid)) => actions' = actions
        /\ (ret'.op = "undo_last" /\ UndoLast) => actions' = actions
        /\ actions' # actions => (ret'.ok /\ ret'.op \in MutationOps)
      ]_vars

\* two entries were recorded, the second was undone, and an operation then failed
C16_Witness ==
    /\ Len(actions) = 2
    /\ actions[1].id = 1 /\ actions[2].id = 2
    /\ last_action = 0
    /\ shared[actions[2].oid] = 2
    /\ ret.op \in MutationOps /\ ~ret.ok

\* C17: the set of order ids the Store holds, and the order_id and the items of
\* every order, never change, whatever Toolkit operations and undos are run;
\* every order is held under its own order_id.
C17_IdsAndItemsFixed ==
    [][ /\ DOMAIN orders' = DOMAIN orders
        /\ \A o \in DOMAIN orders :
              /\ orders[o].order_id = o
              /\ orders'[o].order_id = o
              /\ orders'[o].items = orders[o].items
      ]_vars

\* a return and a change of address were recorded and the second was undone
C17_Witness ==
    /\ Len(actions) = 2
    /\ actions[1].type = "start_return"
    /\ actions[2].type = "change_address"
    /\ ret.op = "undo_last" /\ ret.ok
    /\ orders[actions[2].oid] = actions[2].before
    /\ orders[actions[2].oid].items = <<"Bluetooth Speaker Mini">>
    /\ orders[actions[1].oid].order_id = actions[1].oid

\* C23: the before and after snapshots of a recorded log entry never change
\* once the entry is recorded, whatever operations follow, undoLast followed by
\* further mutations of the same order included (after cancelOrder, undoLast,
\* cancelOrder on one order the first entry's before snapshot still has status
\* Processing).
C23_SnapshotsNeverChange ==
    [][ \A k \in DOMAIN actions :
            /\ actions'[k].before = actions[k].before
            /\ actions'[k].after = actions[k].after
      ]_vars

\* C24: whenever the last-action pointer is set, the order it names is, field
\* for field, that entry's after snapshot; so a successful undoLast discards
\* the change its entry recorded and no later change.
C24_LastActionIsCurrent ==
    last_action # 0 =>
        /\ last_action = Len(actions)
        /\ has_order(StoreState, actions[last_action].oid)
        /\ orders[actions[last_action].oid] = actions[last_action].after

\* the pointer is set on a second entry, recorded on the order whose first
\* change was undone, and outlived a refused undo
C24_Witness ==
    /\ last_action = 2
    /\ actions[1].oid = actions[2].oid
    /\ ret.op = "undo_last" /\ ~ret.ok
    /\ orders[actions[2].oid] = actions[2].after
    /\ orders[actions[2].oid] # actions[2].before

\* C28: the can_undo flag of last_action_info() equals can_undo() at every
\* instant, whatever the age of the last action, 300 s exactly included; so the
\* Undo control is offered exactly when undoLast would not fail for expiry.
C28_InfoAgreesWithCanUndo ==
    last_action_info(StoreState, now).can_undo = can_undo(StoreState, now)

\* every order of the initial stores, as it was seeded
SeedOrders == seed_demo("9876543210", 0) @@ edge_store("9876543210", 0)

\* the seeded statuses from which no Toolkit operation starts
FrozenStatuses == {"Shipped", "Out for Delivery", "Return Initiated", "Refunded", "Cancelled"}

\* C29: an order seeded as Shipped, Out for Delivery, Return Initiated, Refunded
\* or Cancelled is, in every field, as it was seeded, whatever Toolkit
\* operations and undos have run; only orders seeded as Processing or Delivered
\* ever differ from the seed.
C29_FrozenOrdersNeverChange ==
    \A o \in DOMAIN orders :
        /\ SeedOrders[o].status \in FrozenStatuses => orders[o] = SeedOrders[o]
        /\ orders[o] # SeedOrders[o] => SeedOrders[o].status \in {"Processing", "Delivered"}

\* with two entries in the log and one of them undone, a return asked for the
\* Shipped order ORD10072 was refused
C29_Witness ==
    /\ Len(actions) = 2
    /\ \E o \in DOMAIN orders : shared[o] # 0
    /\ ret.op = "start_return" /\ ~ret.ok
    /\ ret.oid = "ORD10072"
    /\ orders["ORD10072"] = SeedOrders["ORD10072"]
    /\ orders["ORD10072"].status = "Shipped"

\* a step of the session in which a turn is dispatched
TurnStep == ~processing /\ processing'

\* the kinds of pending confirmation
PendingKinds == {"cancel", "start_return", "change_address"}

\* C5: whatever the plan's actions are, dispatching a turn changes no order
\* field and appends no log entry (nor moves the last-action pointer): the
\* destructive actions only set the pending confirmation.  The Store changes
\* only in a step that is not a turn and in which either the Toolkit operation
\* of the outstanding confirmation is run on its order (Confirm), or undo_last
\* is run (Undo).
C5_DispatchNeverMutates ==
    [][ /\ TurnStep => UNCHANGED store_vars
        /\ store_vars' # store_vars =>
              /\ ~processing /\ ~processing'
              /\ \/ ret'.op = "undo_last"
                 \/ /\ pending_action # NoPending
                    /\ ret'.op = tool_of(pending_action.type)
                    /\ ret'.oid = pending_action.oid
                    /\ ret'.ok ]_vars

\* a turn whose plan holds cancel_order has been dispatched on a Processing
\* order: the confirmation is pending and the order is still Processing
C5_Witness ==
    /\ processing
    /\ Member("cancel_order", plan.actions)
    /\ pending_action.type = "cancel"
    /\ local_result = MsgConfirmCancel(pending_action.oid)
    /\ orders[pending_action.oid].status = "Processing"
    /\ actions = <<>>

\* C6: the session holds at most one pending confirmation.  A destructive
\* action newly proposed for an order of the Store replaces whatever was
\* pending, leaving nothing of it; a step that runs the Toolkit operation of the
\* pending confirmation (Confirm) clears it whether the operation succeeds or
\* fails; a step that clears it without running an operation (Dismiss) changes
\* no order and no log entry.
C6_OnePendingConfirmation ==
    [][ /\ pending_action'.type \in PendingKinds \cup {None}
        /\ TurnStep =>
              \A oid \in DOMAIN orders :
                 /\ local_result' = MsgConfirmCancel(oid)
                       => pending_action' = [type |-> "cancel", oid |-> oid, address |-> None]
                 /\ local_result' = MsgConfirmReturn(oid)
                       => pending_action' = [type |-> "start_return", oid |-> oid, address |-> None]
                 /\ \A addr \in NewAddresses :
                       local_result' = MsgConfirmAddress(oid, addr)
                          => pending_action' = [type |-> "change_address", oid |-> oid, address |-> addr]
        /\ (pending_action # NoPending /\ ret'.op \in MutationOps) => pending_action' = NoPending
        /\ (pending_action # NoPending /\ pending_action' = NoPending /\ ret' = NoRet)
              => UNCHANGED store_vars ]_vars

\* a confirmation whose Toolkit operation failed has been cleared
C6_Witness ==
    /\ ~processing
    /\ ret.op \in MutationOps
    /\ ~ret.ok
    /\ pending_action = NoPending
    /\ actions = <<>>

\* the dispatcher actions that need an order
OrderActions == {"track_order", "cancel_order", "start_return", "change_address", "explain_delay"}

\* C18: when the one action of a turn's plan needs an order and the plan's
\* target id is not in the Store, the turn's local result is the "couldn't
\* find" message for that id (so no "please confirm" message), and no pending
\* confirmation is raised.
C18_UnknownTargetNotFound ==
    [][ ( /\ TurnStep
          /\ Len(plan'.actions) = 1
          /\ plan'.actions[1] \in OrderActions
          /\ ~Falsy(plan'.target_order_id)
          /\ plan'.target_order_id \notin DOMAIN orders
          /\ (plan'.actions[1] = "change_address" => ~Falsy(plan'.address_text)) ) =>
            /\ local_result' = MsgNotFound(plan'.target_order_id)
            /\ pending_action' = pending_action
      ]_vars

\* the order id a turn's actions start from: the plan's target, else the active order
TurnTarget == IF Falsy(plan'.target_order_id) THEN active_oid ELSE plan'.target_order_id

\* C25: a turn whose text matches a negated-cancel pattern never creates or
\* replaces a pending confirmation of kind cancel, even when the plan's actions
\* hold cancel_order and the target order exists: the cancel_order action
\* answers that the order is kept and leaves the pending confirmation, set or
\* not, as it was.
C25_NegatedCancelRaisesNoCancel ==
    [][ (TurnStep /\ neg_cancel(plan_in'.text)) =>
            /\ pending_action'.type = "cancel" => pending_action' = pending_action
            /\ ( /\ Member("cancel_order", plan'.actions)
                 /\ \A i \in DOMAIN plan'.actions : plan'.actions[i] \in {"general_chat", "cancel_order"} ) =>
                    /\ pending_action' = pending_action
                    /\ local_result' = MsgKept
      ]_vars

\* "DON'T Cancel ORD10078" was dispatched with cancel_order in the plan and the
\* order in the Store; the return confirmation raised earlier is still pending
C25_Witness ==
    /\ processing
    /\ neg_cancel(plan_in.text)
    /\ Member("cancel_order", plan.actions)
    /\ plan.target_order_id = "ORD10078"
    /\ has_order(StoreState, plan.target_order_id)
    /\ local_result = MsgKept
    /\ pending_action.type = "start_return"

\* C26: when track_order fails, for want of a target id or of the order, the
\* actions after it are not dispatched in that turn (a cancel_order after it
\* raises no pending confirmation); the failure of another action (cancel_order
\* without an id, explain_delay of an unknown order) does not stop the action
\* after it, and after a track_order that succeeds the next action runs too.
C26_TrackFailureStopsPlan ==
    [][ TurnStep =>
            LET acts == plan'.actions
                oid == TurnTarget
                found == ~Falsy(oid) /\ oid \in DOMAIN orders
            IN /\ (Len(acts) >= 2 /\ acts[1] = "track_order" /\ ~found) =>
                     /\ local_result' = IF Falsy(oid) THEN MsgShareId ELSE MsgNotFound(oid)
                     /\ pending_action' = pending_action
                     /\ active_oid' = active_oid
               /\ (Len(acts) = 2 /\ acts[1] \in {"track_order", "explain_delay", "cancel_order"}
                      /\ acts[2] = "start_return" /\ (acts[1] = "track_order" => found)) =>
                     /\ local_result' = IF Falsy(oid) THEN MsgShareReturnId ELSE MsgConfirmReturn(oid)
                     /\ found => pending_action' = [type |-> "start_return", oid |-> oid, address |-> None]
      ]_vars

\* track_order failed on ORD99999 and the cancel_order after it was not run
C26_Witness ==
    /\ processing
    /\ plan.actions = <<"track_order", "cancel_order">>
    /\ plan.target_order_id = UnknownId
    /\ local_result = MsgNotFound(UnknownId)
    /\ pending_action = NoPending

\* C27: without a language model the planner returns the actions
\* <<general_chat>> for every text, whatever intent the keyword rules select;
\* a turn in that mode raises no pending confirmation, changes neither the
\* active order nor the Store, and has no local result.
C27_NoModelOnlyChats ==
    [][ (TurnStep /\ plan_in'.reply.kind = "no_client") =>
            /\ plan'.actions = <<"general_chat">>
            /\ plan'.intent = fallback_intent(plan_in'.text)
            /\ pending_action' = pending_action
            /\ active_oid' = active_oid
            /\ local_result' = NoResult
            /\ UNCHANGED store_vars
      ]_vars

\* without a model "cancel ORD99999" was planned as intent cancel with ORD10078
\* active, and nothing is pending
C27_Witness ==
    /\ processing
    /\ plan_in.reply.kind = "no_client"
    /\ plan.intent = "cancel"
    /\ plan.actions = <<"general_chat">>
    /\ plan.target_order_id = "ORD10078"
    /\ pending_action = NoPending

\* C30: in every state of the session the active order id is unset or the id of
\* an order of the Store, a pending confirmation names an order of the Store,
\* and a pending change of address carries an address that is not empty.
C30_SessionRefersToStoreOrders ==
    /\ active_oid = None \/ active_oid \in DOMAIN orders
    /\ pending_action # NoPending =>
          /\ pending_action.type \in PendingKinds
          /\ pending_action.oid \in DOMAIN orders
          /\ pending_action.type = "change_address" => ~Falsy(pending_action.address)

\* a change of address is pending for the active order, after a turn that named
\* an order the Store does not hold
C30_Witness ==
    /\ processing
    /\ plan_in.text = <<"cancel", "ORD99999">>
    /\ active_oid = "ORD10078"
    /\ pending_action = [type |-> "change_address", oid |-> "ORD10078", address |-> "12 Park Lane, Mumbai"]

StatusEdges ==
    {<<"Processing", "Cancelled">>, <<"Processing", "Shipped">>,
     <<"Shipped", "Out for Delivery">>, <<"Out for Delivery", "Delivered">>,
     <<"Delivered", "Return Initiated">>, <<"Return Initiated", "Refunded">>}

\* C7 (as stated): every change of an order's status, by undoLast too, follows an
\* edge of the status graph.
C7_EveryStatusChangeFollowsAnEdge ==
    [][ \A o \in DOMAIN orders :
            orders'[o].status # orders[o].status =>
                <<orders[o].status, orders'[o].status>> \in StatusEdges
      ]_vars

\* C7 (amended): a status change made by cancelOrder, startReturn or changeAddress
\* follows an edge of the status graph; undoLast changes the status of the last
\* action's order only, back along the edge that action took (Cancelled to
\* Processing, Return Initiated to Delivered); a Refunded order never changes.
C7_StatusChangesFollowEdgesExceptUndo ==
    [][ \A o \in DOMAIN orders :
            orders'[o].status # orders[o].status =>
                /\ orders[o].status # "Refunded"
                /\ IF UndoLast
                   THEN /\ last_action # 0 /\ o = actions[last_action].oid
                        /\ <<orders[o].status, orders'[o].status>> \in
                              {<<"Cancelled", "Processing">>, <<"Return Initiated", "Delivered">>}
                   ELSE <<orders[o].status, orders'[o].status>> \in StatusEdges
      ]_vars

\* a return was undone: the order went from Return Initiated back to Delivered
C7_Witness ==
    /\ ret.op = "undo_last" /\ ret.ok
    /\ Len(ret.msg) = 3 /\ ret.msg[2] = "start_return"
    /\ LastEntry.after.status = "Return Initiated"
    /\ orders[LastEntry.oid].status = "Delivered"

\* C9: startReturn succeeds only on an order for which is_return_eligible holds
\* at the time of the call.
C9_ReturnOnlyIfEligible ==
    [][ \A oid \in Targets :
            (StartReturn(oid) /\ ret'.ok) =>
                (has_order(StoreState, oid) /\ is_return_eligible(orders[oid], today))
      ]_vars

\* C10: startReturn on a Delivered order whose return_eligible_until is earlier
\* than today fails with the window-expired message, which is not the message for
\* an order that is not Delivered, and changes no order, log entry or pointer.
C10_ExpiredWindowRefused ==
    [][ \A oid \in Targets :
            ( /\ has_order(StoreState, oid)
              /\ orders[oid].status = "Delivered"
              /\ Parses(orders[oid].return_eligible_until)
              /\ orders[oid].return_eligible_until.d < today
              /\ StartReturn(oid) ) =>
                /\ ~ret'.ok
                /\ ret'.msg = MsgWindowExpired(oid)
                /\ ret'.msg # MsgNotDelivered(oid)
                /\ UNCHANGED store_vars
      ]_vars

\* a return was refused for a Delivered order whose window had closed
C10_Witness ==
    /\ ret.op = "start_return" /\ ~ret.ok
    /\ ret.msg = MsgWindowExpired(ret.oid)
    /\ orders[ret.oid].status = "Delivered"
    /\ orders[ret.oid].return_eligible_until.d < today

=============================================================================
